---- MODULE Spec2Model ----
(***************************************************************************)
(* Model of headers/Expression.h instantiated at T = double.               *)
(*                                                                         *)
(* The heap holds the Expression<T> objects the shared_ptrs point to: a    *)
(* node is addressed by its position in `heap`, and a node that was        *)
(* allocated stays where it is (reference counts are not modelled).  The   *)
(* client builds a DAG bottom-up with the four constructors and then calls *)
(* eval, diff or optimize on an expression it holds.                       *)
(*                                                                         *)
(* A value of T is an exact rational <<n, d>> in lowest terms with d > 0;  *)
(* <<0, 0>> (NaR) stands for a double the model does not follow exactly    *)
(* (an irrational sin/cos/ln/exp/pow result, an infinity or a NaN), and    *)
(* every formula below speaks only about results that are not NaR.         *)
(***************************************************************************)
EXTENDS Integers, Sequences, FiniteSets, TLC

VARIABLES heap, parameters, last

vars == <<heap, parameters, last>>

\* Number of constructor calls the client makes before it calls an operation.
MaxBuild == 3

(***************************** values of T ********************************)

AbsInt(n) == IF n < 0 THEN -n ELSE n

RECURSIVE Gcd(_, _)
Gcd(a, b) == IF b = 0 THEN a ELSE Gcd(b, a % b)

NaR == <<0, 0>>

IsExact(v) == v[2] # 0

\* Numerators and denominators the model follows; a larger one is NaR.
MaxMagnitude == 10000

\* The rational n/d (d # 0) in lowest terms, sign in the numerator.
Rat(n, d) ==
    LET g == Gcd(AbsInt(n), AbsInt(d))
        s == IF d < 0 THEN -1 ELSE 1
        r == <<(s * n) \div g, (s * d) \div g>>
    IN  IF AbsInt(r[1]) > MaxMagnitude \/ r[2] > MaxMagnitude THEN NaR ELSE r

T(n) == <<n, 1>>

Zero == T(0)
One == T(1)

RAdd(a, b) ==
    IF IsExact(a) /\ IsExact(b)
    THEN Rat(a[1] * b[2] + b[1] * a[2], a[2] * b[2]) ELSE NaR

RSub(a, b) ==
    IF IsExact(a) /\ IsExact(b)
    THEN Rat(a[1] * b[2] - b[1] * a[2], a[2] * b[2]) ELSE NaR

RMul(a, b) ==
    IF IsExact(a) /\ IsExact(b) THEN Rat(a[1] * b[1], a[2] * b[2]) ELSE NaR

\* operator/ of double: a zero divisor gives an infinity or a NaN.
RDiv(a, b) ==
    IF IsExact(a) /\ IsExact(b) /\ b[1] # 0
    THEN Rat(a[1] * b[2], a[2] * b[1]) ELSE NaR

RGreater(a, b) == a[1] * b[2] > b[1] * a[2]

RAbs(a) == <<AbsInt(a[1]), a[2]>>

RECURSIVE IntPow(_, _)
IntPow(a, k) == IF k = 0 THEN One ELSE RMul(a, IntPow(a, k - 1))

\* std::pow: followed for an integer exponent and a finite result.
RPow(a, b) ==
    IF ~(IsExact(a) /\ IsExact(b)) \/ b[2] # 1 THEN NaR
    ELSE IF b[1] >= 0 THEN IntPow(a, b[1])
    ELSE IF a[1] = 0 THEN NaR
    ELSE RDiv(One, IntPow(a, -b[1]))

\* std::sin, std::cos, std::log, std::exp: followed where the result is rational.
ApplyFunction(func, v) ==
    CASE func = "SIN" /\ v = Zero -> Zero
      [] func = "COS" /\ v = Zero -> One
      [] func = "LN"  /\ v = One  -> Zero
      [] func = "EXP" /\ v = Zero -> One
      [] OTHER -> NaR

(******************************* the heap *********************************)

Operation == {"PLUS", "MINUS", "MULT", "DIV", "POW"}
Function == {"SIN", "COS", "LN", "EXP"}

Names == {"x", "y"}
\* The values the client passes to the Constant constructor: zero, one, a
\* negative, an integer above one and a fraction.
ConstValues == {T(-1), T(0), T(1), T(2), <<1, 2>>}

ConstantExpression(value) ==
    [kind |-> "Constant", value |-> value, name |-> "", func |-> "", op |-> "",
     expr |-> 0, left |-> 0, right |-> 0]

VarExpression(name) ==
    [kind |-> "Var", value |-> Zero, name |-> name, func |-> "", op |-> "",
     expr |-> 0, left |-> 0, right |-> 0]

MonoExpression(expr, func) ==
    [kind |-> "Mono", value |-> Zero, name |-> "", func |-> func, op |-> "",
     expr |-> expr, left |-> 0, right |-> 0]

BinaryExpression(left, right, op) ==
    [kind |-> "Binary", value |-> Zero, name |-> "", func |-> "", op |-> op,
     expr |-> 0, left |-> left, right |-> right]

\* std::make_shared: the new object and the pointer to it.
MakeShared(h, node) == [heap |-> Append(h, node), res |-> Len(h) + 1]

\* std::dynamic_pointer_cast<ConstantExpression<T>>(p) is not null.
IsConstant(h, p) == h[p].kind = "Constant"

\* Appends the objects of one function body; the last one is its result.
Extend(h, nodes) == [heap |-> h \o nodes, res |-> Len(h) + Len(nodes)]

\* The objects reachable from p, p included.
RECURSIVE Reach(_, _)
Reach(h, p) ==
    LET n == h[p] IN
    {p} \cup CASE n.kind = "Mono"   -> Reach(h, n.expr)
               [] n.kind = "Binary" -> Reach(h, n.left) \cup Reach(h, n.right)
               [] OTHER -> {}

(******************************** eval ************************************)

EmptyMap == [n \in {} |-> Zero]

\* std::map::operator[]: an absent key is inserted with T().
Subscript(m, name) ==
    [n \in DOMAIN m \cup {name} |-> IF n \in DOMAIN m THEN m[n] ELSE Zero]

Thrown(m) == [err |-> TRUE, val |-> Zero, params |-> m]
Returned(v, m) == [err |-> FALSE, val |-> v, params |-> m]

\* A variant of the DIV test that never throws.
DivNoThrow(rv) == FALSE

\* BinaryExpression::eval, case DIV: the test that throws "Division by zero".
DivThrows(rv) == rv = Zero

ApplyOperation(op, lv, rv) ==
    CASE op = "PLUS"  -> RAdd(lv, rv)
      [] op = "MINUS" -> RSub(lv, rv)
      [] op = "MULT"  -> RMul(lv, rv)
      [] op = "DIV"   -> RDiv(lv, rv)
      [] op = "POW"   -> RPow(lv, rv)

RECURSIVE eval(_, _, _)

\* Both operands of a binary operator, evaluated first `a` then `b`.
EvalInOrder(h, a, b, m) ==
    UNION { IF oa.err THEN {[err |-> TRUE, a |-> Zero, b |-> Zero, params |-> oa.params]}
            ELSE { [err |-> ob.err,
                    a |-> IF ob.err THEN Zero ELSE oa.val,
                    b |-> IF ob.err THEN Zero ELSE ob.val,
                    params |-> ob.params] : ob \in eval(h, b, oa.params) }
          : oa \in eval(h, a, m) }

\* The operands of a built-in + - * / and the arguments of std::pow are
\* evaluated in an order the language leaves open: both orders are outcomes.
\* When no operand throws, the other order returns the same values and leaves
\* the same map (it inserts the same keys), so it is computed only after a throw.
EvalOperands(h, l, r, m) ==
    LET lr == { [err |-> o.err, l |-> o.a, r |-> o.b, params |-> o.params]
                  : o \in EvalInOrder(h, l, r, m) }
    IN  IF \A o \in lr : ~o.err THEN lr
        ELSE lr \cup { [err |-> o.err, l |-> o.b, r |-> o.a, params |-> o.params]
                         : o \in EvalInOrder(h, r, l, m) }

\* Expression<T>::eval on the object at p with the map m passed by reference:
\* the set of outcomes [err, val, params], params being the map after the call.
eval(h, p, m) ==
    LET n == h[p] IN
    CASE n.kind = "Constant" -> {Returned(n.value, m)}
      [] n.kind = "Var" ->
            LET m1 == Subscript(m, n.name) IN {Returned(m1[n.name], m1)}
      [] n.kind = "Mono" ->
            { IF o.err THEN o ELSE Returned(ApplyFunction(n.func, o.val), o.params)
                : o \in eval(h, n.expr, m) }
      [] n.kind = "Binary" /\ n.op = "DIV" ->
            UNION { IF d.err THEN {d}
                    ELSE IF DivThrows(d.val) THEN {Thrown(d.params)}
                    ELSE { IF o.err THEN Thrown(o.params)
                           ELSE Returned(ApplyOperation("DIV", o.l, o.r), o.params)
                             : o \in EvalOperands(h, n.left, n.right, d.params) }
                  : d \in eval(h, n.right, m) }
      [] n.kind = "Binary" /\ n.op # "DIV" ->
            { IF o.err THEN Thrown(o.params)
              ELSE Returned(ApplyOperation(n.op, o.l, o.r), o.params)
                : o \in EvalOperands(h, n.left, n.right, m) }

\* eval of a constant, or of an operator node over two constants, with the
\* local empty `map` of optimize and diff: one outcome.
EvalClosed(h, p) == (CHOOSE o \in eval(h, p, EmptyMap) : TRUE).val

(******************************** diff ************************************)

RECURSIVE diff(_, _, _)

\* A variant of the power-rule test that also takes the exponent 1.
PowerRuleAtOne(c) == ~RGreater(One, c)

\* BinaryExpression::diff, case POW, `if (right_const->eval(map) > T(1))`.
PowerRule(c) == RGreater(c, One)

\* BinaryExpression::diff, case POW, for T = double.  h already holds the
\* objects of left_diff (at ld) and right_diff (at rd).
\* The objects one return statement allocates are appended in an order that
\* puts operands before the node that holds them; the order decides addresses
\* only, the pointers between the objects are those of the code.
DiffPow(h, left, right, ld, rd) ==
    LET b == Len(h) IN
    IF IsConstant(h, right) THEN
        LET c == EvalClosed(h, right) IN
        IF PowerRule(c) THEN
            Extend(h, << ConstantExpression(RSub(c, One)),
                         BinaryExpression(left, b + 1, "POW"),
                         BinaryExpression(b + 2, ld, "MULT"),
                         BinaryExpression(right, b + 3, "MULT") >>)
        ELSE IF c = One THEN
            Extend(h, << ConstantExpression(One) >>)
        ELSE
            Extend(h, << BinaryExpression(right, ld, "MULT"),
                         ConstantExpression(RAdd(RAbs(c), One)),
                         BinaryExpression(left, b + 2, "POW"),
                         BinaryExpression(b + 1, b + 3, "DIV") >>)
    ELSE IF IsConstant(h, left) THEN
        Extend(h, << BinaryExpression(left, right, "POW"),
                     MonoExpression(left, "LN"),
                     BinaryExpression(b + 1, b + 2, "MULT"),
                     BinaryExpression(rd, b + 3, "MULT") >>)
    ELSE
        Extend(h, << MonoExpression(left, "LN"),
                     BinaryExpression(rd, b + 1, "MULT"),
                     BinaryExpression(ld, left, "DIV"),
                     BinaryExpression(right, b + 3, "MULT"),
                     BinaryExpression(b + 2, b + 4, "PLUS") >>)

\* BinaryExpression::diff.
DiffBinary(h, p, str) ==
    LET n  == h[p]
        dl == diff(h, n.left, str)
        dr == diff(dl.heap, n.right, str)
        h2 == dr.heap
        b  == Len(h2)
    IN  CASE n.op = "PLUS" ->
                Extend(h2, << BinaryExpression(dl.res, dr.res, "PLUS") >>)
          [] n.op = "MINUS" ->
                Extend(h2, << BinaryExpression(dl.res, dr.res, "MINUS") >>)
          [] n.op = "MULT" ->
                Extend(h2, << BinaryExpression(dl.res, n.right, "MULT"),
                              BinaryExpression(n.left, dr.res, "MULT"),
                              BinaryExpression(b + 1, b + 2, "PLUS") >>)
          [] n.op = "DIV" ->
                Extend(h2, << BinaryExpression(dl.res, n.right, "MULT"),
                              BinaryExpression(n.left, dr.res, "MULT"),
                              BinaryExpression(b + 1, b + 2, "MINUS"),
                              ConstantExpression(T(2)),
                              BinaryExpression(n.right, b + 4, "POW"),
                              BinaryExpression(b + 3, b + 5, "DIV") >>)
          [] n.op = "POW" ->
                DiffPow(h2, n.left, n.right, dl.res, dr.res)

\* MonoExpression::diff.
DiffMono(h, p, str) ==
    LET n  == h[p]
        de == diff(h, n.expr, str)
        h1 == de.heap
        b  == Len(h1)
    IN  CASE n.func = "SIN" ->
                Extend(h1, << MonoExpression(n.expr, "COS"),
                              BinaryExpression(b + 1, de.res, "MULT") >>)
          [] n.func = "COS" ->
                Extend(h1, << ConstantExpression(T(-1)),
                              MonoExpression(n.expr, "SIN"),
                              BinaryExpression(b + 1, b + 2, "MULT"),
                              BinaryExpression(b + 3, de.res, "MULT") >>)
          [] n.func = "LN" ->
                Extend(h1, << BinaryExpression(de.res, n.expr, "DIV") >>)
          [] n.func = "EXP" ->
                Extend(h1, << MonoExpression(n.expr, "EXP"),
                              BinaryExpression(b + 1, de.res, "MULT") >>)

\* Expression<T>::diff on the object at p: the heap with the derivative's
\* objects appended, and the pointer to the derivative.
diff(h, p, str) ==
    LET n == h[p] IN
    CASE n.kind = "Constant" -> MakeShared(h, ConstantExpression(T(0)))
      [] n.kind = "Var" ->
            IF str = n.name THEN MakeShared(h, ConstantExpression(T(1)))
            ELSE MakeShared(h, ConstantExpression(T(0)))
      [] n.kind = "Mono" -> DiffMono(h, p, str)
      [] n.kind = "Binary" -> DiffBinary(h, p, str)

(****************************** optimize **********************************)

RECURSIVE optimize(_, _)

\* Assignment to a field of the object at p (the object is changed in place).
SetLeft(h, p, q)  == [h EXCEPT ![p].left = q]
SetRight(h, p, q) == [h EXCEPT ![p].right = q]
SetExpr(h, p, q)  == [h EXCEPT ![p].expr = q]
SetOp(h, p, op)   == [h EXCEPT ![p].op = op]

\* `expr = std::make_shared<ConstantExpression<T>>(v)` in optimize.
ExprConstant(h, v) ==
    LET a == MakeShared(h, ConstantExpression(v)) IN [heap |-> a.heap, expr |-> a.res]

\* A variant of the zero test that folds every pair of constants.
SumAlwaysFolds(lv, rv) == TRUE

\* optimize: `if (left->eval(map) == T(0) || right->eval(map) == T(0))` of
\* the PLUS/MINUS branch.
SumHasZero(lv, rv) == lv = Zero \/ rv = Zero

\* optimize: the `if (binary->op == PLUS || binary->op == MINUS)` block, on
\* the node `binary` whose children are optimized; lc, rc say whether the
\* locals left, right are non-null, lv, rv are the values they hold.
OptimizeSum(h, binary, lc, rc, lv, rv) ==
    LET n == h[binary] IN
    IF n.op \notin {"PLUS", "MINUS"} THEN [heap |-> h, expr |-> binary]
    ELSE IF lc /\ rc THEN
        IF SumHasZero(lv, rv) THEN ExprConstant(h, EvalClosed(h, binary))
        ELSE [heap |-> h, expr |-> binary]
    ELSE IF lc THEN
        IF lv = Zero THEN
            IF n.op = "MINUS" THEN
                LET a == MakeShared(SetOp(h, binary, "MULT"), ConstantExpression(T(-1)))
                IN  [heap |-> SetLeft(a.heap, binary, a.res), expr |-> binary]
            ELSE [heap |-> h, expr |-> n.right]
        ELSE [heap |-> h, expr |-> binary]
    ELSE IF rc THEN
        IF rv = Zero THEN [heap |-> h, expr |-> n.left]
        ELSE [heap |-> h, expr |-> binary]
    ELSE [heap |-> h, expr |-> binary]

\* optimize: the `if (binary->op == MULT || binary->op == DIV)` block, entered
\* with the heap and `expr` the first block left; lc, rc, lv, rv still
\* describe the locals left, right taken before the first block.
OptimizeProduct(s, binary, lc, rc, lv, rv) ==
    LET h  == s.heap
        n  == h[binary]
        ok(t) == [heap |-> t.heap, res |-> t.expr, err |-> FALSE]
    IN
    IF n.op \notin {"MULT", "DIV"} THEN ok(s)
    ELSE IF lc /\ rc THEN
        IF (lv = Zero \/ rv = Zero) /\ n.op = "DIV" /\ rv = Zero
        THEN [heap |-> h, res |-> s.expr, err |-> TRUE]
        ELSE
            LET s1 == IF lv = Zero \/ rv = Zero THEN ExprConstant(h, T(0)) ELSE s
                s2 == IF lv = One \/ rv = One
                      THEN ExprConstant(s1.heap, EvalClosed(s1.heap, s1.expr))
                      ELSE s1
            IN  ok(s2)
    ELSE IF lc THEN
        LET s1 == IF lv = One /\ n.op = "MULT"
                  THEN [heap |-> h, expr |-> n.right] ELSE s
            s2 == IF lv = Zero THEN ExprConstant(s1.heap, T(0)) ELSE s1
        IN  ok(s2)
    ELSE IF rc THEN
        LET s1 == IF rv = One THEN [heap |-> h, expr |-> n.left] ELSE s
            s2 == IF rv = Zero THEN ExprConstant(s1.heap, T(0)) ELSE s1
        IN  ok(s2)
    ELSE ok(s)

\* optimize: the two rewrite blocks on a binary node whose children are
\* optimized, from the casts of binary->left and binary->right on.
Rewrite(h, binary) ==
    LET n  == h[binary]
        lc == IsConstant(h, n.left)
        rc == IsConstant(h, n.right)
        lv == IF lc THEN EvalClosed(h, n.left) ELSE NaR
        rv == IF rc THEN EvalClosed(h, n.right) ELSE NaR
    IN  OptimizeProduct(OptimizeSum(h, binary, lc, rc, lv, rv), binary, lc, rc, lv, rv)

\* optimize: `binary->left = optimize(binary->left); binary->right =
\* optimize(binary->right);` (an exception leaves the later steps undone).
OptimizeChildren(h, binary) ==
    LET l == optimize(h, h[binary].left) IN
    IF l.err THEN [heap |-> l.heap, err |-> TRUE]
    ELSE LET h1 == SetLeft(l.heap, binary, l.res)
             r  == optimize(h1, h1[binary].right)
         IN  IF r.err THEN [heap |-> r.heap, err |-> TRUE]
             ELSE [heap |-> SetRight(r.heap, binary, r.res), err |-> FALSE]

\* A pre-order variant: the node is rewritten before its children are.
OptimizeBinaryRewriteFirst(h, expr) ==
    LET t == Rewrite(h, expr) IN
    IF t.err \/ t.res # expr THEN t
    ELSE LET c == OptimizeChildren(t.heap, expr)
         IN  [heap |-> c.heap, res |-> expr, err |-> c.err]

\* optimize, the `if (auto binary = ...)` branch.
OptimizeBinary(h, expr) ==
    LET c == OptimizeChildren(h, expr) IN
    IF c.err THEN [heap |-> c.heap, res |-> expr, err |-> TRUE]
    ELSE Rewrite(c.heap, expr)

\* optimize, the `if (auto mono = ...)` branch.
OptimizeMono(h, expr) ==
    LET e == optimize(h, h[expr].expr) IN
    IF e.err THEN [heap |-> e.heap, res |-> expr, err |-> TRUE]
    ELSE [heap |-> SetExpr(e.heap, expr, e.res), res |-> expr, err |-> FALSE]

\* optimize(expr): the heap after the call, the pointer returned, and whether
\* std::runtime_error("Division by zero") was thrown instead.
optimize(h, expr) ==
    CASE h[expr].kind = "Mono"   -> OptimizeMono(h, expr)
      [] h[expr].kind = "Binary" -> OptimizeBinary(h, expr)
      [] OTHER -> [heap |-> h, res |-> expr, err |-> FALSE]

(************************* the client's session ***************************)

ParamValues == {T(0), T(2)}

\* The maps a client passes to eval: any subset of the names bound.
Maps == UNION { [D -> ParamValues] : D \in SUBSET Names }

Pointers == 1 .. Len(heap)

NoCall ==
    [call |-> "none", arg |-> 0, str |-> "", of |-> 0, heap0 |-> << >>,
     params0 |-> EmptyMap, res |-> 0, val |-> Zero, err |-> FALSE]

Init ==
    /\ heap = << >>
    /\ parameters = EmptyMap
    /\ last = NoCall

Building == last.call = "none" /\ Len(heap) < MaxBuild

\* The expressions the client can pass to a constructor.
Operands == IF Building THEN Pointers ELSE {}

\* std::make_shared<ConstantExpression<T>>(value)
NewConstant(value) ==
    /\ Building
    /\ heap' = Append(heap, ConstantExpression(value))
    /\ UNCHANGED <<parameters, last>>

\* std::make_shared<VarExpression<T>>(name)
NewVar(name) ==
    /\ Building
    /\ heap' = Append(heap, VarExpression(name))
    /\ UNCHANGED <<parameters, last>>

\* std::make_shared<MonoExpression<T>>(expr, func)
NewMono(expr, func) ==
    /\ Building
    /\ expr \in Pointers
    /\ heap' = Append(heap, MonoExpression(expr, func))
    /\ UNCHANGED <<parameters, last>>

\* std::make_shared<BinaryExpression<T>>(left, right, op)
NewBinary(left, right, op) ==
    /\ Building
    /\ left \in Pointers /\ right \in Pointers
    /\ heap' = Append(heap, BinaryExpression(left, right, op))
    /\ UNCHANGED <<parameters, last>>

\* The expression the client holds: the one it built or derived last.  Every
\* sub-expression is the root of the state in which it was just built.
Root == Len(heap)

\* The client calls an operation once every node it built is part of the
\* expression: a call reads and writes only what Root reaches, so a node
\* outside it changes nothing but the addresses.
Complete == Root > 0 /\ Reach(heap, Root) = Pointers

\* Root->eval(m) for a map m the client filled.
CallEval(m) ==
    /\ last.call = "none"
    /\ Complete
    /\ \E o \in eval(heap, Root, m) :
          /\ parameters' = o.params
          /\ last' = [call |-> "eval", arg |-> Root, str |-> "", of |-> 0,
                      heap0 |-> heap, params0 |-> m, res |-> 0, val |-> o.val,
                      err |-> o.err]
    /\ UNCHANGED heap

\* Root->diff(str)
CallDiff(str) ==
    /\ last.call = "none"
    /\ Complete
    /\ LET d == diff(heap, Root, str) IN
          /\ heap' = d.heap
          /\ last' = [call |-> "diff", arg |-> Root, str |-> str, of |-> 0,
                      heap0 |-> heap, params0 |-> EmptyMap, res |-> d.res,
                      val |-> Zero, err |-> FALSE]
    /\ UNCHANGED parameters

\* optimize(Root), on a built expression or on the derivative diff returned.
CallOptimize ==
    /\ \/ last.call = "none" /\ Complete
       \/ last.call = "diff"
    /\ LET r == optimize(heap, Root) IN
          /\ heap' = r.heap
          /\ last' = [call |-> "optimize", arg |-> Root, str |-> last.str,
                      of |-> IF last.call = "diff" THEN last.arg ELSE 0,
                      heap0 |-> heap, params0 |-> EmptyMap, res |-> r.res,
                      val |-> Zero, err |-> r.err]
    /\ UNCHANGED parameters

Next ==
    \/ \E value \in ConstValues : NewConstant(value)
    \/ \E name \in Names : NewVar(name)
    \/ \E expr \in Operands, func \in Function : NewMono(expr, func)
    \/ \E left \in Operands, right \in Operands, op \in Operation :
          NewBinary(left, right, op)
    \/ \E m \in Maps : CallEval(m)
    \/ \E str \in Names : CallDiff(str)
    \/ CallOptimize

Spec == Init /\ [][Next]_vars

(************************ structure of expressions ************************)

TConstant(value) ==
    [kind |-> "Constant", value |-> value, name |-> "", func |-> "", op |-> "",
     kids |-> << >>]

TBinary(op, l, r) ==
    [kind |-> "Binary", value |-> Zero, name |-> "", func |-> "", op |-> op,
     kids |-> <<l, r>>]

\* The expression at p unfolded into a tree (sharing and addresses forgotten).
RECURSIVE Tree(_, _)
Tree(h, p) ==
    LET n == h[p] IN
    [kind |-> n.kind, value |-> n.value, name |-> n.name, func |-> n.func,
     op |-> n.op,
     kids |-> CASE n.kind = "Mono"   -> << Tree(h, n.expr) >>
                [] n.kind = "Binary" -> << Tree(h, n.left), Tree(h, n.right) >>
                [] OTHER -> << >>]

\* The variable names that occur in the expression at p.
VarsOf(h, p) == { h[q].name : q \in { r \in Reach(h, p) : h[r].kind = "Var" } }

\* The expression at p is built from Constant, Variable, + - * / only.
IsArithmetic(h, p) ==
    \A q \in Reach(h, p) :
        /\ h[q].kind # "Mono"
        /\ h[q].kind = "Binary" => h[q].op # "POW"

\* The value arithmetic gives a tree under env, an unbound name counting as
\* zero; NaR where a division by zero occurs.
RECURSIVE Denote(_, _)
Denote(t, env) ==
    CASE t.kind = "Constant" -> t.value
      [] t.kind = "Var" -> IF t.name \in DOMAIN env THEN env[t.name] ELSE Zero
      [] t.kind = "Binary" ->
            LET l == Denote(t.kids[1], env)
                r == Denote(t.kids[2], env)
            IN  CASE t.op = "PLUS"  -> RAdd(l, r)
                  [] t.op = "MINUS" -> RSub(l, r)
                  [] t.op = "MULT"  -> RMul(l, r)
                  [] t.op = "DIV"   -> RDiv(l, r)
                  [] OTHER -> NaR
      [] OTHER -> NaR

\* The tree contains a Div node whose right operand has the value zero.
RECURSIVE DividesByZero(_, _)
DividesByZero(t, env) ==
    /\ t.kind = "Binary"
    /\ \/ DividesByZero(t.kids[1], env)
       \/ DividesByZero(t.kids[2], env)
       \/ t.op = "DIV" /\ Denote(t.kids[2], env) = Zero

Optimized == last.call = "optimize"
Differentiated == last.call = "diff"
Evaluated == last.call = "eval"

\* The node the last call was made on, as it was before the call.
Arg0 == last.heap0[last.arg]

\* The last call was made on a Binary node with operator in ops.
OnBinary(ops) == Arg0.kind = "Binary" /\ Arg0.op \in ops

(******************************** claims **********************************)

\* C1: simplification preserves evaluation: whenever evaluate(e, env) succeeds,
\* simplify(e) succeeds and evaluate(simplify(e), env) returns the same value.
C1_SimplifyPreservesEvaluation ==
    Optimized =>
        \A m \in Maps : \A o \in eval(last.heap0, last.arg, m) :
            (~o.err /\ IsExact(o.val)) =>
                /\ ~last.err
                /\ \A o2 \in eval(heap, last.res, m) :
                      ~o2.err /\ (IsExact(o2.val) => o2.val = o.val)

\* C2: for a non-constant x, simplify(Sub(Constant(0), x)) returns the node
\* Mul(Constant(-1), simplify(x)).
C2_ZeroMinusBecomesProduct ==
    (/\ Optimized
     /\ OnBinary({"MINUS"})
     /\ Tree(last.heap0, Arg0.left) = TConstant(Zero)
     /\ ~IsConstant(last.heap0, Arg0.right))
    => LET x == optimize(last.heap0, Arg0.right) IN
       ~x.err =>
           /\ ~last.err
           /\ Tree(heap, last.res) = TBinary("MULT", TConstant(T(-1)), Tree(x.heap, x.res))

\* The last call was simplify on Add or Sub of two Constant nodes.
OnConstantSum ==
    /\ Optimized
    /\ OnBinary({"PLUS", "MINUS"})
    /\ IsConstant(last.heap0, Arg0.left)
    /\ IsConstant(last.heap0, Arg0.right)

SumOfConstants ==
    LET a == last.heap0[Arg0.left].value
        b == last.heap0[Arg0.right].value
    IN  IF Arg0.op = "PLUS" THEN RAdd(a, b) ELSE RSub(a, b)

\* C3 as stated: simplify(Add(Constant(a), Constant(b))) is Constant(a + b) and
\* simplify(Sub(Constant(a), Constant(b))) is Constant(a - b), for all a and b.
C3_ConstantSumAlwaysFolds ==
    OnConstantSum =>
        ~last.err /\ Tree(heap, last.res) = TConstant(SumOfConstants)

\* C3 as amended: the sum or difference of two constants is folded to
\* Constant(a + b) or Constant(a - b) exactly when a or b is zero; otherwise
\* simplify returns the Add or Sub node itself, unchanged.
C3_ConstantSumFoldsOnlyWithZero ==
    OnConstantSum =>
        /\ ~last.err
        /\ IF last.heap0[Arg0.left].value = Zero \/ last.heap0[Arg0.right].value = Zero
           THEN Tree(heap, last.res) = TConstant(SumOfConstants)
           ELSE /\ last.res = last.arg
                /\ Tree(heap, last.res) = Tree(last.heap0, last.arg)

\* simplify was called on the sum or difference of two non-zero constants.
C3_Witness ==
    /\ OnConstantSum
    /\ last.heap0[Arg0.left].value = T(2)
    /\ last.heap0[Arg0.right].value = T(1)
    /\ Tree(heap, last.res).kind = "Binary"

\* C4: simplify is idempotent: where simplify(e) succeeds, simplifying its
\* result again succeeds and gives a structurally equal expression.
C4_SimplifyIdempotent ==
    (Optimized /\ ~last.err) =>
        LET again == optimize(heap, last.res) IN
        /\ ~again.err
        /\ Tree(again.heap, again.res) = Tree(heap, last.res)

\* simplify rewrote a derivative to an operator node different from its input.
C4_Witness ==
    /\ Optimized /\ ~last.err
    /\ last.of # 0
    /\ heap[last.res].kind = "Binary"
    /\ Tree(heap, last.res) # Tree(last.heap0, last.arg)

\* C5: simplify does not mutate its input: every node reachable from the
\* argument keeps its operator, function and children, and the expression a
\* simplified derivative was derived from keeps its structure.
C5_SimplifyLeavesInputUntouched ==
    Optimized =>
        /\ \A q \in Reach(last.heap0, last.arg) : heap[q] = last.heap0[q]
        /\ last.of # 0 => Tree(heap, last.of) = Tree(last.heap0, last.of)

\* C6: on a tree of Constant, Variable, Add, Sub, Mul, Div, evaluate fails
\* with DivisionByZero iff the tree contains a Div node whose right operand
\* evaluates to zero (an unbound variable counting as zero), and otherwise
\* returns the arithmetic value.
C6_EvalFailsIffZeroDivisor ==
    (Evaluated /\ IsArithmetic(last.heap0, last.arg)) =>
        LET t == Tree(last.heap0, last.arg) IN
        /\ last.err <=> DividesByZero(t, last.params0)
        /\ ~last.err => last.val = Denote(t, last.params0)

\* evaluate failed on a Div node whose left operand is a bound non-zero
\* variable and whose right operand is an unbound variable.
C6_Witness ==
    /\ Evaluated /\ last.err
    /\ OnBinary({"DIV"})
    /\ last.heap0[Arg0.left].kind = "Var"
    /\ last.heap0[Arg0.right].kind = "Var"
    /\ last.heap0[Arg0.right].name \notin DOMAIN last.params0
    /\ last.heap0[Arg0.left].name \in DOMAIN last.params0
    /\ last.params0[last.heap0[Arg0.left].name] # Zero

\* C7: simplify of a Div node whose right child simplifies to Constant(0)
\* fails with DivisionByZero, whatever the left operand is.
C7_SimplifyDivByZeroFails ==
    (Optimized /\ OnBinary({"DIV"})) =>
        LET r == optimize(last.heap0, Arg0.right) IN
        (~r.err /\ Tree(r.heap, r.res) = TConstant(Zero)) => last.err

\* The last call was differentiate on Pow(l, Constant(c)).
OnConstantPower ==
    /\ Differentiated
    /\ OnBinary({"POW"})
    /\ IsConstant(last.heap0, Arg0.right)

\* C8: differentiate(Pow(l, Constant(c)), x) is c * (l^(c-1) * diff(l)) when
\* c > 1, Constant(1) when c = 1, and (c * diff(l)) / l^(|c|+1) for every
\* other c, also when l is a Constant.
C8_PowConstantExponentRule ==
    OnConstantPower =>
        LET c  == last.heap0[Arg0.right].value
            l  == Tree(last.heap0, Arg0.left)
            d  == diff(last.heap0, Arg0.left, last.str)
            dl == Tree(d.heap, d.res)
            absc == IF c[1] < 0 THEN <<-c[1], c[2]>> ELSE c
        IN  Tree(heap, last.res) =
              IF c[1] > c[2]
              THEN TBinary("MULT", TConstant(c),
                       TBinary("MULT", TBinary("POW", l, TConstant(RSub(c, One))), dl))
              ELSE IF c = One THEN TConstant(One)
              ELSE TBinary("DIV", TBinary("MULT", TConstant(c), dl),
                       TBinary("POW", l, TConstant(RAdd(absc, One))))

\* differentiate was called on Pow(Constant(a), Constant(-1)).
C8_Witness ==
    /\ OnConstantPower
    /\ IsConstant(last.heap0, Arg0.left)
    /\ last.heap0[Arg0.right].value = T(-1)
    /\ Tree(heap, last.res).op = "DIV"

\* C9: evaluate leaves the binding table unchanged, whether it returns or
\* fails, also when the expression mentions a name absent from the table.
C9_EvalLeavesBindingsUnchanged ==
    Evaluated => parameters = last.params0

\* C10: if x does not occur in e, every successful evaluation of
\* differentiate(e, x) gives zero.
C10_DerivativeOfAbsentVariableIsZero ==
    (Differentiated /\ last.str \notin VarsOf(last.heap0, last.arg)) =>
        \A m \in Maps : \A o \in eval(heap, last.res, m) :
            (~o.err /\ IsExact(o.val)) => o.val = Zero

====
